---------------------------- MODULE Spec2Model ----------------------------
(***************************************************************************)
(* Training orchestration of the two GAN trainers of the repository:       *)
(*   GANs/pix2pixHD/trainer.py            (Trainer, get_params_startswith) *)
(*   GANs/stylegan2-distillation/train.py (Trainer)                        *)
(*                                                                         *)
(* A parameter name is a sequence of text pieces; "/" is a piece of its    *)
(* own and no piece is a proper prefix of another, so that a prefix test   *)
(* on the sequence of pieces is the prefix test on the joined string and   *)
(* splitting at the "/" pieces is str.split("/").                          *)
(*                                                                         *)
(* Every worker process (one per rank of the communicator) runs            *)
(* Trainer.train; pc[w] is the position of worker w in it. A gradient is   *)
(* modelled by its provenance: the set of <<loss, epoch, i>> tags of the   *)
(* backward passes that have been accumulated into it since it was last    *)
(* zeroed.                                                                 *)
(***************************************************************************)
EXTENDS Integers, Sequences, FiniteSets, TLC

\* ------------------------------------------------------------------ bounds
MaxEpoch == 11
MaxSize == 2
MaxBatch == 2
MaxProcs == 2
MaxFix == 2
MaxParams == 3
DistMaxEpoch == 2
DistMaxSize == 1

\* ------------------------------------------------------- parameter names
instance_normalization == "instance_normalization"

\* the parameters the graph built by Trainer.train registers
GraphParams ==
    { <<"generator", "/", "local", "/", "conv", "/", "W">>,
      <<"generator", "/", "local", "/", instance_normalization, "/", "gamma">>,
      <<"generator", "/", "global", "/", "conv", "/", "W">>,
      <<"generator", "/", "global", "/", instance_normalization, "/", "beta">>,
      <<"discriminator", "/", "conv", "/", "W">>,
      <<"discriminator", "/", instance_normalization, "/", "beta">> }

\* names a parameter registry may hold in general
ParamUniverse ==
    GraphParams \cup
    { <<"W">>,
      <<"generator">>,
      <<instance_normalization, "/", "W">>,
      <<"generator", "/", instance_normalization>> }

PrefixUniverse ==
    { <<"generator", "/", "local">>,
      <<"generator">>,
      <<"discriminator">>,
      <<"W">>,
      << >> }

\* str.split("/")
RECURSIVE split(_)
split(k) ==
    IF \E n \in 1..Len(k) : k[n] = "/"
    THEN LET n == CHOOSE n \in 1..Len(k) :
                      k[n] = "/" /\ \A j \in 1..(n - 1) : k[j] # "/"
         IN  <<SubSeq(k, 1, n - 1)>> \o split(SubSeq(k, n + 1, Len(k)))
    ELSE <<k>>

\* str.startswith(prefix)
startswith(k, prefix) ==
    Len(prefix) <= Len(k) /\ SubSeq(k, 1, Len(prefix)) = prefix

\* list[-2]: an IndexError when the list has fewer than two elements
HasIndexMinus2(xs) == Len(xs) >= 2

IndexMinus2(xs) == xs[Len(xs) - 1]

\* get_params_startswith(str, ignore_in) on the registry `parameters`:
\* raised is TRUE when the call ends with an IndexError, value is the
\* dictionary's key set otherwise
get_params_startswith(parameters, str, ignore_in) ==
    IF ignore_in /\ \E k \in parameters : ~HasIndexMinus2(split(k))
    THEN [raised |-> TRUE, value |-> {}]
    ELSE LET kept == IF ignore_in
                     THEN {k \in parameters : IndexMinus2(split(k)) # <<instance_normalization>>}
                     ELSE parameters
         IN  [raised |-> FALSE,
              value  |-> {k \in kept : startswith(k, str)}]


\* ------------------------------------------------------------------ state
VARIABLES
    trainer,               \* which of the two Trainer classes runs
    n_procs,               \* comm.n_procs
    max_epoch,             \* self.max_epoch / tconf.max_epochs
    fix_global_epoch_arg,  \* the fix_global_epoch given to __init__
    fix_global_epoch,      \* self.fix_global_epoch
    load_path,             \* self.load_path
    path_exists,           \* os.path.exists(self.load_path)
    batch_size,            \* data_iter._batch_size / self.bs
    data_size,             \* data_iter._size of each worker
    parameters,            \* nn.get_parameters(): the registered names
    pc,                    \* position of each worker in Trainer.train
    epoch,                 \* loop variable of the epoch loop
    i,                     \* loop variable of the iteration loop
    n_iter,                \* length of progress_iterator
    lr,                    \* local variable lr
    g_solver_lr,           \* learning rate held by g_solver
    d_solver_lr,           \* learning rate held by d_solver
    g_solver_params,       \* g_solver.get_parameters() keys
    d_solver_params,       \* d_solver.get_parameters() keys
    warned,                \* number of logger.warn calls
    loaded,                \* number of nn.load_parameters calls
    files,                 \* files written by nn.save_parameters, in order
    trace,                 \* operations of the current iteration, in order
    d_updates,             \* number of d_solver.update calls
    g_updates,             \* number of g_solver.update calls
    grad,                  \* provenance of each parameter's gradient
    fake_grad,             \* provenance of fake.grad (= unlinked_fake.grad)
    d_used,                \* provenance of the gradients d_solver.update read
    g_used,                \* provenance of the gradients g_solver.update read
    g_updated,             \* parameters g_solver.update has ever changed
    ar_calls,              \* number of comm.all_reduce calls issued
    ar_args,               \* parameters whose gradients the last call passed
    lr_evals,              \* number of lr_schduler calls
    epoch_reports,         \* number of reporter.epoch_end / reporter.step calls
    gp_str,                \* argument str of a get_params_startswith call
    gp_ignore_in,          \* argument ignore_in of that call
    gp_result              \* its outcome

conf == <<trainer, n_procs, max_epoch, fix_global_epoch_arg, fix_global_epoch,
          load_path, path_exists, batch_size, data_size, parameters>>

gp == <<gp_str, gp_ignore_in, gp_result>>

vars == <<conf, gp, pc, epoch, i, n_iter, lr, g_solver_lr, d_solver_lr,
          g_solver_params, d_solver_params, warned, loaded, files, trace,
          d_updates, g_updates, grad, fake_grad, d_used, g_used, g_updated,
          ar_calls, ar_args, lr_evals, epoch_reports>>

Workers == DOMAIN pc

\* comm.rank of worker w
rank(w) == w

Trainers == {"pix2pixHD", "stylegan2"}

\* load_path values: None, the empty string, a path
None == "<None>"

LoadPaths == {None, "", "params.h5"}

\* truth value of a str-or-None in an if
truthy(path) == path # None /\ path # ""

BaseLr == 8

\* the communicator sizes of the runs in which all workers are modelled
DistProcs == {2}

\* the values of max_epoch a run is started with
EpochChoices == {0, 1, 2, MaxEpoch}

Uninit == <<"uninit", -1, -1>>

\* self.fix_global_epoch = fix_global_epoch, without the max
clamp_fix_global_epoch_missing(x) == x

\* ---------------------------------------------------------------- helpers
\* self.fix_global_epoch = max(fix_global_epoch, 0)
clamp_fix_global_epoch(x) == IF x > 0 THEN x ELSE 0

\* the scheduler called with the epoch: constant, then a linear decay
lr_schduler(e) ==
    LET start == max_epoch \div 2
    IN  IF e < start \/ max_epoch = start
        THEN BaseLr
        ELSE (BaseLr * (max_epoch - e)) \div (max_epoch - start)

\* length of the trange of one epoch
num_iterations(w) ==
    IF trainer = "pix2pixHD"
    THEN data_size[w] \div batch_size
    ELSE (data_size[w] \div batch_size) \div n_procs

\* epochs between two periodic checkpoints
save_period == IF trainer = "pix2pixHD" THEN 10 ELSE 5

RECURSIVE digits(_)
digits(n) == IF n < 10 THEN <<n>> ELSE digits(n \div 10) \o <<n % 10>>

\* '{:03d}'.format(n), n >= 0
format_03d(n) ==
    LET ds == digits(n)
    IN  IF Len(ds) >= 3 THEN ds
        ELSE [k \in 1..(3 - Len(ds)) |-> 0] \o ds

\* 'param_{:03d}.h5'.format(epoch)
param_file(e) == [stem |-> "param_", number |-> format_03d(e), ext |-> ".h5"]

param_final == [stem |-> "param_final", number |-> << >>, ext |-> ".h5"]

\* solver.set_parameters(new, reset=False, retain_state=True)
set_parameters_keep(old, new) == old \cup new

\* solver.zero_grad(): the gradients of the solver's parameters are zeroed
zero_grad(g, solver_params) ==
    [k \in DOMAIN g |-> IF k \in solver_params THEN {} ELSE g[k]]

\* backward accumulates `tags` into the gradients of the parameters `into`
accumulate(g, into, tags) ==
    [k \in DOMAIN g |-> IF k \in into THEN g[k] \cup tags ELSE g[k]]

\* parameters the discriminator graph reaches
DiscriminatorParams == {k \in parameters : startswith(k, <<"discriminator">>)}

\* parameters the generator graph reaches
GeneratorParams == {k \in parameters : startswith(k, <<"generator">>)}

read_grads(g, solver_params) == UNION {g[k] : k \in solver_params}

Upd(f, w, v) == [f EXCEPT ![w] = v]

Goto(w, l) == pc' = Upd(pc, w, l)

Log(w, e) == trace' = Upd(trace, w, Append(trace[w], e))

\* ------------------------------------------------------------------- init
NoCall == [called |-> FALSE, raised |-> FALSE, value |-> {}]

\* the workers W at the start of Trainer.train
WorkersInit(W) ==
    /\ pc = [w \in W |-> "load"]
    /\ epoch = [w \in W |-> 0]
    /\ i = [w \in W |-> 0]
    /\ n_iter = [w \in W |-> 0]
    /\ lr = [w \in W |-> -1]
    /\ g_solver_lr = [w \in W |-> -1]
    /\ d_solver_lr = [w \in W |-> -1]
    /\ g_solver_params = [w \in W |-> {}]
    /\ d_solver_params = [w \in W |-> {}]
    /\ warned = [w \in W |-> 0]
    /\ loaded = [w \in W |-> 0]
    /\ files = [w \in W |-> << >>]
    /\ trace = [w \in W |-> << >>]
    /\ d_updates = [w \in W |-> 0]
    /\ g_updates = [w \in W |-> 0]
    /\ grad = [w \in W |-> [k \in parameters |-> {Uninit}]]
    /\ fake_grad = [w \in W |-> {Uninit}]
    /\ d_used = [w \in W |-> {}]
    /\ g_used = [w \in W |-> {}]
    /\ g_updated = [w \in W |-> {}]
    /\ ar_calls = [w \in W |-> 0]
    /\ ar_args = [w \in W |-> {}]
    /\ lr_evals = [w \in W |-> 0]
    /\ epoch_reports = [w \in W |-> 0]

\* one worker of a communicator of n_procs processes, after __init__
Init ==
    /\ trainer \in Trainers
    /\ n_procs \in 1..MaxProcs
    /\ max_epoch \in EpochChoices
    /\ fix_global_epoch_arg \in -1..MaxFix
    /\ fix_global_epoch = clamp_fix_global_epoch(fix_global_epoch_arg)
    /\ load_path \in LoadPaths
    /\ path_exists \in IF truthy(load_path) THEN BOOLEAN ELSE {FALSE}
    /\ batch_size \in 1..MaxBatch
    /\ parameters = GraphParams
    /\ \E r \in 0..(n_procs - 1) :
          /\ data_size \in [{r} -> 0..MaxSize]
          /\ WorkersInit({r})
    /\ gp_str = << >>
    /\ gp_ignore_in = TRUE
    /\ gp_result = NoCall

\* all the workers of a communicator, after __init__
InitDist ==
    /\ trainer \in Trainers
    /\ n_procs \in DistProcs
    /\ max_epoch \in 0..DistMaxEpoch
    /\ fix_global_epoch_arg = 0
    /\ fix_global_epoch = clamp_fix_global_epoch(fix_global_epoch_arg)
    /\ load_path = None
    /\ path_exists = FALSE
    /\ batch_size = 1
    /\ parameters = GraphParams
    /\ data_size \in [0..(n_procs - 1) -> {n_procs * k : k \in 0..DistMaxSize}]
    /\ WorkersInit(0..(n_procs - 1))
    /\ gp_str = << >>
    /\ gp_ignore_in = TRUE
    /\ gp_result = NoCall

\* a registry and the arguments of one get_params_startswith call
InitParams ==
    /\ trainer = "pix2pixHD"
    /\ n_procs = 1
    /\ max_epoch = 0
    /\ fix_global_epoch_arg = 0
    /\ fix_global_epoch = 0
    /\ load_path = None
    /\ path_exists = FALSE
    /\ batch_size = 1
    /\ data_size = << >>
    /\ parameters \in {ps \in SUBSET ParamUniverse : Cardinality(ps) <= MaxParams}
    /\ WorkersInit({})
    /\ gp_str \in PrefixUniverse
    /\ gp_ignore_in \in BOOLEAN
    /\ gp_result = NoCall

\* LoadParameters without the os.path.exists test of line 91
LoadParameters_no_exists_test(w) ==
    /\ pc[w] = "load"
    /\ IF truthy(load_path)
       THEN /\ loaded' = Upd(loaded, w, loaded[w] + 1)
            /\ UNCHANGED warned
            /\ IF path_exists THEN Goto(w, "setup_solvers") ELSE Goto(w, "raised")
       ELSE UNCHANGED <<warned, loaded>> /\ Goto(w, "setup_solvers")
    /\ UNCHANGED <<conf, gp, epoch, i, n_iter, lr, g_solver_lr, d_solver_lr,
                   g_solver_params, d_solver_params, files, trace, d_updates,
                   g_updates, grad, fake_grad, d_used, g_used, g_updated,
                   ar_calls, ar_args, lr_evals, epoch_reports>>

\* ---------------------------------------------------------------- actions
\* trainer.py 89-95, train.py 84-90: load parameters
LoadParameters(w) ==
    /\ pc[w] = "load"
    /\ IF truthy(load_path)
       THEN IF ~path_exists
            THEN warned' = Upd(warned, w, warned[w] + 1) /\ UNCHANGED loaded
            ELSE loaded' = Upd(loaded, w, loaded[w] + 1) /\ UNCHANGED warned
       ELSE UNCHANGED <<warned, loaded>>
    /\ Goto(w, "setup_solvers")
    /\ UNCHANGED <<conf, gp, epoch, i, n_iter, lr, g_solver_lr, d_solver_lr,
                   g_solver_params, d_solver_params, files, trace, d_updates,
                   g_updates, grad, fake_grad, d_used, g_used, g_updated,
                   ar_calls, ar_args, lr_evals, epoch_reports>>

\* trainer.py 97-102, train.py 92-97: the two solvers are created and given their parameters
SetupSolvers(w) ==
    /\ pc[w] = "setup_solvers"
    /\ LET g == get_params_startswith(parameters, <<"generator", "/", "local">>, TRUE)
           d == get_params_startswith(parameters, <<"discriminator">>, TRUE)
       IN  IF g.raised \/ d.raised
           THEN Goto(w, "raised") /\ UNCHANGED <<g_solver_params, d_solver_params>>
           ELSE /\ g_solver_params' = Upd(g_solver_params, w, g.value)
                /\ d_solver_params' = Upd(d_solver_params, w, d.value)
                /\ Goto(w, "epoch_head")
    /\ UNCHANGED <<conf, gp, epoch, i, n_iter, lr, g_solver_lr, d_solver_lr,
                   warned, loaded, files, trace, d_updates, g_updates, grad,
                   fake_grad, d_used, g_used, g_updated, ar_calls, ar_args,
                   lr_evals, epoch_reports>>

\* trainer.py 115, train.py 109: for epoch in range(max_epoch)
EpochHead(w) ==
    /\ pc[w] = "epoch_head"
    /\ IF epoch[w] < max_epoch
       THEN Goto(w, "fix_global")
       ELSE Goto(w, "save_final")
    /\ UNCHANGED <<conf, gp, epoch, i, n_iter, lr, g_solver_lr, d_solver_lr,
                   g_solver_params, d_solver_params, warned, loaded, files,
                   trace, d_updates, g_updates, grad, fake_grad, d_used,
                   g_used, g_updated, ar_calls, ar_args, lr_evals,
                   epoch_reports>>

\* trainer.py 116-118, train.py 110-112: the global generator's parameters join g_solver
FixGlobal(w) ==
    /\ pc[w] = "fix_global"
    /\ IF epoch[w] = fix_global_epoch
       THEN LET g == get_params_startswith(parameters, <<"generator">>, TRUE)
            IN  IF g.raised
                THEN Goto(w, "raised") /\ UNCHANGED g_solver_params
                ELSE /\ g_solver_params' =
                           Upd(g_solver_params, w,
                               set_parameters_keep(g_solver_params[w], g.value))
                     /\ Goto(w, "set_lr")
       ELSE Goto(w, "set_lr") /\ UNCHANGED g_solver_params
    /\ UNCHANGED <<conf, gp, epoch, i, n_iter, lr, g_solver_lr, d_solver_lr,
                   d_solver_params, warned, loaded, files, trace, d_updates,
                   g_updates, grad, fake_grad, d_used, g_used, g_updated,
                   ar_calls, ar_args, lr_evals, epoch_reports>>

\* SetLearningRate with line 123 setting g_solver a second time
SetLearningRate_g_twice(w) ==
    /\ pc[w] = "set_lr"
    /\ lr' = Upd(lr, w, lr_schduler(epoch[w]))
    /\ lr_evals' = Upd(lr_evals, w, lr_evals[w] + 1)
    /\ g_solver_lr' = Upd(g_solver_lr, w, lr'[w])
    /\ UNCHANGED d_solver_lr
    /\ Goto(w, "epoch_start")
    /\ UNCHANGED <<conf, gp, epoch, i, n_iter, g_solver_params,
                   d_solver_params, warned, loaded, files, trace, d_updates,
                   g_updates, grad, fake_grad, d_used, g_used, g_updated,
                   ar_calls, ar_args, epoch_reports>>

\* trainer.py 120-123, train.py 114-117: the learning rate of the epoch
SetLearningRate(w) ==
    /\ pc[w] = "set_lr"
    /\ lr' = Upd(lr, w, lr_schduler(epoch[w]))
    /\ lr_evals' = Upd(lr_evals, w, lr_evals[w] + 1)
    /\ g_solver_lr' = Upd(g_solver_lr, w, lr'[w])
    /\ d_solver_lr' = Upd(d_solver_lr, w, lr'[w])
    /\ Goto(w, "epoch_start")
    /\ UNCHANGED <<conf, gp, epoch, i, n_iter, g_solver_params,
                   d_solver_params, warned, loaded, files, trace, d_updates,
                   g_updates, grad, fake_grad, d_used, g_used, g_updated,
                   ar_calls, ar_args, epoch_reports>>

\* trainer.py 125-129, train.py 119-122: progress_iterator, reporter.epoch_start
EpochStart(w) ==
    /\ pc[w] = "epoch_start"
    /\ n_iter' = Upd(n_iter, w, num_iterations(w))
    /\ i' = Upd(i, w, 0)
    /\ Goto(w, "iter_head")
    /\ UNCHANGED <<conf, gp, epoch, lr, g_solver_lr, d_solver_lr,
                   g_solver_params, d_solver_params, warned, loaded, files,
                   trace, d_updates, g_updates, grad, fake_grad, d_used,
                   g_used, g_updated, ar_calls, ar_args, lr_evals,
                   epoch_reports>>

\* trainer.py 131, train.py 124: for i in progress_iterator
IterHead(w) ==
    /\ pc[w] = "iter_head"
    /\ IF i[w] < n_iter[w]
       THEN Goto(w, "fake_forward") /\ trace' = Upd(trace, w, << >>)
       ELSE Goto(w, "epoch_end") /\ UNCHANGED trace
    /\ UNCHANGED <<conf, gp, epoch, i, n_iter, lr, g_solver_lr, d_solver_lr,
                   g_solver_params, d_solver_params, warned, loaded, files,
                   d_updates, g_updates, grad, fake_grad, d_used, g_used,
                   g_updated, ar_calls, ar_args, lr_evals, epoch_reports>>

\* trainer.py 132-139, train.py 125-131: next batch, fake.forward()
FakeForward(w) ==
    /\ pc[w] = "fake_forward"
    /\ Log(w, "fake.forward")
    /\ Goto(w, "d_zero_grad")
    /\ UNCHANGED <<conf, gp, epoch, i, n_iter, lr, g_solver_lr, d_solver_lr,
                   g_solver_params, d_solver_params, warned, loaded, files,
                   d_updates, g_updates, grad, fake_grad, d_used, g_used,
                   g_updated, ar_calls, ar_args, lr_evals, epoch_reports>>

\* trainer.py 142, train.py 134: d_solver.zero_grad()
DZeroGrad(w) ==
    /\ pc[w] = "d_zero_grad"
    /\ grad' = Upd(grad, w, zero_grad(grad[w], d_solver_params[w]))
    /\ Log(w, "d_solver.zero_grad")
    /\ Goto(w, "d_backward")
    /\ UNCHANGED <<conf, gp, epoch, i, n_iter, lr, g_solver_lr, d_solver_lr,
                   g_solver_params, d_solver_params, warned, loaded, files,
                   d_updates, g_updates, fake_grad, d_used, g_used,
                   g_updated, ar_calls, ar_args, lr_evals, epoch_reports>>

\* trainer.py 143-144, train.py 135-136: d_loss.forward(), d_loss.backward(): into the discriminator's
\* parameters and into unlinked_fake.grad
DLossBackward(w) ==
    /\ pc[w] = "d_backward"
    /\ LET tags == {<<"d_loss", epoch[w], i[w]>>}
       IN  /\ grad' = Upd(grad, w, accumulate(grad[w], DiscriminatorParams, tags))
           /\ fake_grad' = Upd(fake_grad, w, fake_grad[w] \cup tags)
    /\ Log(w, "d_loss.backward")
    /\ Goto(w, "d_all_reduce")
    /\ UNCHANGED <<conf, gp, epoch, i, n_iter, lr, g_solver_lr, d_solver_lr,
                   g_solver_params, d_solver_params, warned, loaded, files,
                   d_updates, g_updates, d_used, g_used, g_updated, ar_calls,
                   ar_args, lr_evals, epoch_reports>>

\* DAllReduce with the call made by rank 0 alone
DAllReduce_rank0_only(w) ==
    /\ pc[w] = "d_all_reduce"
    /\ IF n_procs > 1 /\ rank(w) = 0
       THEN /\ ar_calls' = Upd(ar_calls, w, ar_calls[w] + 1)
            /\ ar_args' = Upd(ar_args, w, d_solver_params[w])
            /\ Log(w, "all_reduce")
            /\ Goto(w, "d_wait")
       ELSE /\ Goto(w, "d_update")
            /\ UNCHANGED <<ar_calls, ar_args, trace>>
    /\ UNCHANGED <<conf, gp, epoch, i, n_iter, lr, g_solver_lr, d_solver_lr,
                   g_solver_params, d_solver_params, warned, loaded, files,
                   d_updates, g_updates, grad, fake_grad, d_used, g_used,
                   g_updated, lr_evals, epoch_reports>>

\* DAllReduce without the n_procs test of line 146
DAllReduce_always(w) ==
    /\ pc[w] = "d_all_reduce"
    /\ ar_calls' = Upd(ar_calls, w, ar_calls[w] + 1)
    /\ ar_args' = Upd(ar_args, w, d_solver_params[w])
    /\ Log(w, "all_reduce")
    /\ Goto(w, "d_wait")
    /\ UNCHANGED <<conf, gp, epoch, i, n_iter, lr, g_solver_lr, d_solver_lr,
                   g_solver_params, d_solver_params, warned, loaded, files,
                   d_updates, g_updates, grad, fake_grad, d_used, g_used,
                   g_updated, lr_evals, epoch_reports>>

\* trainer.py 146-149, train.py 138-141: all_reduce of d_solver's gradients
DAllReduce(w) ==
    /\ pc[w] = "d_all_reduce"
    /\ IF n_procs > 1
       THEN /\ ar_calls' = Upd(ar_calls, w, ar_calls[w] + 1)
            /\ ar_args' = Upd(ar_args, w, d_solver_params[w])
            /\ Log(w, "all_reduce")
            /\ Goto(w, "d_wait")
       ELSE /\ Goto(w, "d_update")
            /\ UNCHANGED <<ar_calls, ar_args, trace>>
    /\ UNCHANGED <<conf, gp, epoch, i, n_iter, lr, g_solver_lr, d_solver_lr,
                   g_solver_params, d_solver_params, warned, loaded, files,
                   d_updates, g_updates, grad, fake_grad, d_used, g_used,
                   g_updated, lr_evals, epoch_reports>>

\* trainer.py 150, train.py 142: d_solver.update()
DUpdate(w) ==
    /\ pc[w] = "d_update"
    /\ d_used' = Upd(d_used, w, read_grads(grad[w], d_solver_params[w]))
    /\ d_updates' = Upd(d_updates, w, d_updates[w] + 1)
    /\ Log(w, "d_solver.update")
    /\ Goto(w, "fake_grad_zero")
    /\ UNCHANGED <<conf, gp, epoch, i, n_iter, lr, g_solver_lr, d_solver_lr,
                   g_solver_params, d_solver_params, warned, loaded, files,
                   g_updates, grad, fake_grad, g_used, g_updated, ar_calls,
                   ar_args, lr_evals, epoch_reports>>

\* FakeGradZero without the zeroing of line 153
FakeGradZero_missing(w) ==
    /\ pc[w] = "fake_grad_zero"
    /\ UNCHANGED fake_grad
    /\ Log(w, "unlinked_fake.grad.zero")
    /\ Goto(w, "g_zero_grad")
    /\ UNCHANGED <<conf, gp, epoch, i, n_iter, lr, g_solver_lr, d_solver_lr,
                   g_solver_params, d_solver_params, warned, loaded, files,
                   d_updates, g_updates, grad, d_used, g_used, g_updated,
                   ar_calls, ar_args, lr_evals, epoch_reports>>

\* trainer.py 153, train.py 145: unlinked_fake.grad.zero()
FakeGradZero(w) ==
    /\ pc[w] = "fake_grad_zero"
    /\ fake_grad' = Upd(fake_grad, w, {})
    /\ Log(w, "unlinked_fake.grad.zero")
    /\ Goto(w, "g_zero_grad")
    /\ UNCHANGED <<conf, gp, epoch, i, n_iter, lr, g_solver_lr, d_solver_lr,
                   g_solver_params, d_solver_params, warned, loaded, files,
                   d_updates, g_updates, grad, d_used, g_used, g_updated,
                   ar_calls, ar_args, lr_evals, epoch_reports>>

\* trainer.py 154, train.py 146: g_solver.zero_grad()
GZeroGrad(w) ==
    /\ pc[w] = "g_zero_grad"
    /\ grad' = Upd(grad, w, zero_grad(grad[w], g_solver_params[w]))
    /\ Log(w, "g_solver.zero_grad")
    /\ Goto(w, "g_backward")
    /\ UNCHANGED <<conf, gp, epoch, i, n_iter, lr, g_solver_lr, d_solver_lr,
                   g_solver_params, d_solver_params, warned, loaded, files,
                   d_updates, g_updates, fake_grad, d_used, g_used,
                   g_updated, ar_calls, ar_args, lr_evals, epoch_reports>>

\* trainer.py 155-156, train.py 147-148: g_loss.forward(), g_loss.backward(): through the
\* discriminator into unlinked_fake.grad
GLossBackward(w) ==
    /\ pc[w] = "g_backward"
    /\ LET tags == {<<"g_loss", epoch[w], i[w]>>}
       IN  /\ grad' = Upd(grad, w, accumulate(grad[w], DiscriminatorParams, tags))
           /\ fake_grad' = Upd(fake_grad, w, fake_grad[w] \cup tags)
    /\ Log(w, "g_loss.backward")
    /\ Goto(w, "fake_backward")
    /\ UNCHANGED <<conf, gp, epoch, i, n_iter, lr, g_solver_lr, d_solver_lr,
                   g_solver_params, d_solver_params, warned, loaded, files,
                   d_updates, g_updates, d_used, g_used, g_updated, ar_calls,
                   ar_args, lr_evals, epoch_reports>>

\* trainer.py 159, train.py 151: fake.backward(grad=None): fake.grad is propagated into the
\* generator's parameters
FakeBackward(w) ==
    /\ pc[w] = "fake_backward"
    /\ grad' = Upd(grad, w, accumulate(grad[w], GeneratorParams, fake_grad[w]))
    /\ Log(w, "fake.backward")
    /\ Goto(w, "g_all_reduce")
    /\ UNCHANGED <<conf, gp, epoch, i, n_iter, lr, g_solver_lr, d_solver_lr,
                   g_solver_params, d_solver_params, warned, loaded, files,
                   d_updates, g_updates, fake_grad, d_used, g_used,
                   g_updated, ar_calls, ar_args, lr_evals, epoch_reports>>

\* GAllReduce with g_solver.update() moved under the if of line 161
GAllReduce_update_under_if(w) ==
    /\ pc[w] = "g_all_reduce"
    /\ IF n_procs > 1
       THEN /\ ar_calls' = Upd(ar_calls, w, ar_calls[w] + 1)
            /\ ar_args' = Upd(ar_args, w, g_solver_params[w])
            /\ Log(w, "all_reduce")
            /\ Goto(w, "g_wait")
       ELSE /\ Goto(w, "report")
            /\ UNCHANGED <<ar_calls, ar_args, trace>>
    /\ UNCHANGED <<conf, gp, epoch, i, n_iter, lr, g_solver_lr, d_solver_lr,
                   g_solver_params, d_solver_params, warned, loaded, files,
                   d_updates, g_updates, grad, fake_grad, d_used, g_used,
                   g_updated, lr_evals, epoch_reports>>

\* trainer.py 161-164, train.py 153-156: all_reduce of g_solver's gradients
GAllReduce(w) ==
    /\ pc[w] = "g_all_reduce"
    /\ IF n_procs > 1
       THEN /\ ar_calls' = Upd(ar_calls, w, ar_calls[w] + 1)
            /\ ar_args' = Upd(ar_args, w, g_solver_params[w])
            /\ Log(w, "all_reduce")
            /\ Goto(w, "g_wait")
       ELSE /\ Goto(w, "g_update")
            /\ UNCHANGED <<ar_calls, ar_args, trace>>
    /\ UNCHANGED <<conf, gp, epoch, i, n_iter, lr, g_solver_lr, d_solver_lr,
                   g_solver_params, d_solver_params, warned, loaded, files,
                   d_updates, g_updates, grad, fake_grad, d_used, g_used,
                   g_updated, lr_evals, epoch_reports>>

\* trainer.py 165, train.py 157: g_solver.update()
GUpdate(w) ==
    /\ pc[w] = "g_update"
    /\ g_used' = Upd(g_used, w, read_grads(grad[w], g_solver_params[w]))
    /\ g_updated' = Upd(g_updated, w, g_updated[w] \cup g_solver_params[w])
    /\ g_updates' = Upd(g_updates, w, g_updates[w] + 1)
    /\ Log(w, "g_solver.update")
    /\ Goto(w, "report")
    /\ UNCHANGED <<conf, gp, epoch, i, n_iter, lr, g_solver_lr, d_solver_lr,
                   g_solver_params, d_solver_params, warned, loaded, files,
                   d_updates, grad, fake_grad, d_used, ar_calls, ar_args,
                   lr_evals, epoch_reports>>

\* trainer.py 168, train.py 160: reporter(), end of the iteration
Report(w) ==
    /\ pc[w] = "report"
    /\ i' = Upd(i, w, i[w] + 1)
    /\ Goto(w, "iter_head")
    /\ UNCHANGED <<conf, gp, epoch, n_iter, lr, g_solver_lr, d_solver_lr,
                   g_solver_params, d_solver_params, warned, loaded, files,
                   trace, d_updates, g_updates, grad, fake_grad, d_used,
                   g_used, g_updated, ar_calls, ar_args, lr_evals,
                   epoch_reports>>

\* trainer.py 170-175, train.py 162-175: reporter.epoch_end(show_images, epoch)
EpochEnd(w) ==
    /\ pc[w] = "epoch_end"
    /\ epoch_reports' = Upd(epoch_reports, w, epoch_reports[w] + 1)
    /\ Goto(w, "checkpoint")
    /\ UNCHANGED <<conf, gp, epoch, i, n_iter, lr, g_solver_lr, d_solver_lr,
                   g_solver_params, d_solver_params, warned, loaded, files,
                   trace, d_updates, g_updates, grad, fake_grad, d_used,
                   g_used, g_updated, ar_calls, ar_args, lr_evals>>

\* Checkpoint without the comm.rank test of line 177
Checkpoint_no_rank_test(w) ==
    /\ pc[w] = "checkpoint"
    /\ IF epoch[w] % save_period = 0
       THEN files' = Upd(files, w, Append(files[w], param_file(epoch[w])))
       ELSE UNCHANGED files
    /\ epoch' = Upd(epoch, w, epoch[w] + 1)
    /\ Goto(w, "epoch_head")
    /\ UNCHANGED <<conf, gp, i, n_iter, lr, g_solver_lr, d_solver_lr,
                   g_solver_params, d_solver_params, warned, loaded, trace,
                   d_updates, g_updates, grad, fake_grad, d_used, g_used,
                   g_updated, ar_calls, ar_args, lr_evals, epoch_reports>>

\* trainer.py 177-179, train.py 177-179: the periodic checkpoint, end of the epoch
Checkpoint(w) ==
    /\ pc[w] = "checkpoint"
    /\ IF epoch[w] % save_period = 0 /\ rank(w) = 0
       THEN files' = Upd(files, w, Append(files[w], param_file(epoch[w])))
       ELSE UNCHANGED files
    /\ epoch' = Upd(epoch, w, epoch[w] + 1)
    /\ Goto(w, "epoch_head")
    /\ UNCHANGED <<conf, gp, i, n_iter, lr, g_solver_lr, d_solver_lr,
                   g_solver_params, d_solver_params, warned, loaded, trace,
                   d_updates, g_updates, grad, fake_grad, d_used, g_used,
                   g_updated, ar_calls, ar_args, lr_evals, epoch_reports>>

\* SaveFinal as the last statement of the body of the epoch loop
SaveFinal_in_last_epoch(w) ==
    /\ pc[w] = "save_final"
    /\ IF rank(w) = 0 /\ epoch[w] > 0
       THEN files' = Upd(files, w, Append(files[w], param_final))
       ELSE UNCHANGED files
    /\ Goto(w, "done")
    /\ UNCHANGED <<conf, gp, epoch, i, n_iter, lr, g_solver_lr, d_solver_lr,
                   g_solver_params, d_solver_params, warned, loaded, trace,
                   d_updates, g_updates, grad, fake_grad, d_used, g_used,
                   g_updated, ar_calls, ar_args, lr_evals, epoch_reports>>

\* trainer.py 181-182, train.py 181-183: param_final.h5
SaveFinal(w) ==
    /\ pc[w] = "save_final"
    /\ IF rank(w) = 0
       THEN files' = Upd(files, w, Append(files[w], param_final))
       ELSE UNCHANGED files
    /\ Goto(w, "done")
    /\ UNCHANGED <<conf, gp, epoch, i, n_iter, lr, g_solver_lr, d_solver_lr,
                   g_solver_params, d_solver_params, warned, loaded, trace,
                   d_updates, g_updates, grad, fake_grad, d_used, g_used,
                   g_updated, ar_calls, ar_args, lr_evals, epoch_reports>>

\* comm.all_reduce returns: the collective completes once every modelled
\* worker of the communicator has entered the same call with buffers of the
\* same parameters (the workers that are not modelled are taken to enter it)
CommAllReduce ==
    /\ Workers # {}
    /\ \A w \in Workers : pc[w] \in {"d_wait", "g_wait"}
    /\ \A u, v \in Workers : ar_calls[u] = ar_calls[v] /\ ar_args[u] = ar_args[v]
    /\ pc' = [w \in Workers |-> IF pc[w] = "d_wait" THEN "d_update" ELSE "g_update"]
    /\ UNCHANGED <<conf, gp, epoch, i, n_iter, lr, g_solver_lr, d_solver_lr,
                   g_solver_params, d_solver_params, warned, loaded, files,
                   trace, d_updates, g_updates, grad, fake_grad, d_used,
                   g_used, g_updated, ar_calls, ar_args, lr_evals,
                   epoch_reports>>

\* one call get_params_startswith(str, ignore_in)
GetParamsCall ==
    /\ ~gp_result.called
    /\ LET r == get_params_startswith(parameters, gp_str, gp_ignore_in)
       IN  gp_result' = [called |-> TRUE, raised |-> r.raised, value |-> r.value]
    /\ UNCHANGED <<conf, gp_str, gp_ignore_in, pc, epoch, i, n_iter, lr,
                   g_solver_lr, d_solver_lr, g_solver_params,
                   d_solver_params, warned, loaded, files, trace, d_updates,
                   g_updates, grad, fake_grad, d_used, g_used, g_updated,
                   ar_calls, ar_args, lr_evals, epoch_reports>>

\* ------------------------------------------------------------------- next
Next ==
    \/ \E w \in Workers : LoadParameters(w)
    \/ \E w \in Workers : SetupSolvers(w)
    \/ \E w \in Workers : EpochHead(w)
    \/ \E w \in Workers : FixGlobal(w)
    \/ \E w \in Workers : SetLearningRate(w)
    \/ \E w \in Workers : EpochStart(w)
    \/ \E w \in Workers : IterHead(w)
    \/ \E w \in Workers : FakeForward(w)
    \/ \E w \in Workers : DZeroGrad(w)
    \/ \E w \in Workers : DLossBackward(w)
    \/ \E w \in Workers : DAllReduce(w)
    \/ \E w \in Workers : DUpdate(w)
    \/ \E w \in Workers : FakeGradZero(w)
    \/ \E w \in Workers : GZeroGrad(w)
    \/ \E w \in Workers : GLossBackward(w)
    \/ \E w \in Workers : FakeBackward(w)
    \/ \E w \in Workers : GAllReduce(w)
    \/ \E w \in Workers : GUpdate(w)
    \/ \E w \in Workers : Report(w)
    \/ \E w \in Workers : EpochEnd(w)
    \/ \E w \in Workers : Checkpoint(w)
    \/ \E w \in Workers : SaveFinal(w)
    \/ CommAllReduce

NextParams == GetParamsCall

\* Trainer.train of one worker
Spec == Init /\ [][Next]_vars

\* Trainer.train of all the workers of a communicator; every process runs
SpecDist == InitDist /\ [][Next]_vars /\ WF_vars(Next)

\* get_params_startswith on a registry
SpecParams == InitParams /\ [][NextParams]_vars

\* ----------------------------------------------------------------- claims
\* positions of Trainer.train between d_solver.update and g_solver.update
AfterDUpdate ==
    {"fake_grad_zero", "g_zero_grad", "g_backward", "fake_backward",
     "g_all_reduce", "g_wait", "g_update"}

\* positions inside the body of the iteration loop
InIteration ==
    {"fake_forward", "d_zero_grad", "d_backward", "d_all_reduce", "d_wait",
     "d_update", "report"} \cup AfterDUpdate

\* positions inside the body of the epoch loop after the learning rate is set
InEpoch == InIteration \cup {"epoch_start", "iter_head", "epoch_end", "checkpoint"}

\* iterations of one epoch of worker w
IterationsPerEpoch(w) ==
    IF trainer = "stylegan2"
    THEN (data_size[w] \div batch_size) \div n_procs
    ELSE data_size[w] \div batch_size

\* iterations worker w has started, from the loop variables alone
IterationsStarted(w) ==
    IF pc[w] \in {"load", "setup_solvers"} THEN 0
    ELSE IF pc[w] \in InIteration
         THEN epoch[w] * IterationsPerEpoch(w) + i[w] + 1
    ELSE IF pc[w] \in {"iter_head", "epoch_end", "checkpoint"}
         THEN epoch[w] * IterationsPerEpoch(w) + i[w]
    ELSE epoch[w] * IterationsPerEpoch(w)

Count(s, e) == Cardinality({k \in 1..Len(s) : s[k] = e})

Restrict(s, es) == SelectSeq(s, LAMBDA e : e \in es)

IsPrefix(s, t) == Len(s) <= Len(t) /\ SubSeq(t, 1, Len(s)) = s

\* C1: every iteration performs exactly one d_solver.update followed by
\* exactly one g_solver.update: the discriminator update of an iteration
\* precedes its generator update, which precedes the next iteration's
\* discriminator update; the two counts never differ by more than one.
C1_UpdatesAlternate ==
    \A w \in Workers :
        /\ d_updates[w] = g_updates[w] + (IF pc[w] \in AfterDUpdate THEN 1 ELSE 0)
        /\ g_updates[w] =
              IterationsStarted(w) - (IF pc[w] \in InIteration \ {"report"} THEN 1 ELSE 0)
        /\ IsPrefix(Restrict(trace[w], {"d_solver.update", "g_solver.update"}),
                    <<"d_solver.update", "g_solver.update">>)
        /\ pc[w] = "report" =>
              Restrict(trace[w], {"d_solver.update", "g_solver.update"})
                 = <<"d_solver.update", "g_solver.update">>

\* an iteration has run to its end after an earlier one, both updates done
C1_Witness ==
    \E w \in Workers :
        /\ pc[w] = "report"
        /\ d_updates[w] >= 2
        /\ g_updates[w] = d_updates[w]

\* the warnings and loads the load step makes for the given load_path
ExpectedWarnings == IF truthy(load_path) /\ ~path_exists THEN 1 ELSE 0

ExpectedLoads == IF truthy(load_path) /\ path_exists THEN 1 ELSE 0

C2_LoadState ==
    \A w \in Workers :
        /\ pc[w] = "load" => warned[w] = 0 /\ loaded[w] = 0
        /\ pc[w] # "load" => warned[w] = ExpectedWarnings /\ loaded[w] = ExpectedLoads
        /\ pc[w] # "raised"
        /\ pc[w] = "load" => g_solver_params[w] = {} /\ d_solver_params[w] = {}

C2_LoadStep ==
    \A w \in Workers :
        /\ pc[w] = "load" /\ pc'[w] # "load" => pc'[w] = "setup_solvers"
        /\ (warned'[w] # warned[w] \/ loaded'[w] # loaded[w]) =>
              /\ pc[w] = "load"
              /\ g_solver_params[w] = {} /\ d_solver_params[w] = {}
        /\ pc[w] = "setup_solvers" /\ pc'[w] # "setup_solvers" => pc'[w] = "epoch_head"

\* C2: checkpoint loading is warning-and-skip. A set load_path that does
\* not exist gives one warning and no nn.load_parameters call, and training
\* goes on to the solver setup and the epoch loop; a set load_path that
\* exists is loaded exactly once, before the solvers get their parameters;
\* an empty or None load_path gives neither a warning nor a load.
C2_WarnAndSkip == []C2_LoadState /\ [][C2_LoadStep]_vars

\* a run with a missing checkpoint path has warned, not loaded, and trains
C2_Witness ==
    \E w \in Workers :
        /\ truthy(load_path) /\ ~path_exists
        /\ warned[w] = 1 /\ loaded[w] = 0
        /\ g_updates[w] >= 1

\* the operations of one iteration that C3 orders
C3_Ops ==
    {"d_loss.backward", "all_reduce", "d_solver.update",
     "fake.backward", "g_solver.update"}

C3_Expected ==
    IF n_procs > 1
    THEN <<"d_loss.backward", "all_reduce", "d_solver.update",
           "fake.backward", "all_reduce", "g_solver.update">>
    ELSE <<"d_loss.backward", "d_solver.update",
           "fake.backward", "g_solver.update">>

\* C3: gradients are aggregated only by comm.all_reduce and only when
\* comm.n_procs > 1. Then every iteration calls all_reduce exactly twice:
\* on d_solver's gradients after d_loss.backward and before
\* d_solver.update, and on g_solver's gradients after fake.backward and
\* before g_solver.update. With comm.n_procs = 1 all_reduce is never called
\* and both updates still happen.
C3_AllReduce ==
    \A w \in Workers :
        /\ IsPrefix(Restrict(trace[w], C3_Ops), C3_Expected)
        /\ pc[w] = "report" => Restrict(trace[w], C3_Ops) = C3_Expected
        /\ n_procs = 1 => ar_calls[w] = 0
        /\ n_procs > 1 => ar_calls[w] = d_updates[w] + g_updates[w]
                             + (IF pc[w] \in {"d_wait", "d_update", "g_wait", "g_update"}
                                THEN 1 ELSE 0)
        /\ pc[w] = "d_wait" => ar_args[w] = d_solver_params[w] /\ n_procs > 1
        /\ pc[w] = "g_wait" => ar_args[w] = g_solver_params[w] /\ n_procs > 1

\* an iteration of a worker of a multi-process run has made both calls
C3_Witness ==
    \E w \in Workers :
        /\ n_procs > 1
        /\ pc[w] = "report"
        /\ Count(trace[w], "all_reduce") = 2
        /\ ar_calls[w] >= 4

RECURSIVE DecimalValue(_)
DecimalValue(ds) ==
    IF ds = << >> THEN 0
    ELSE 10 * DecimalValue(SubSeq(ds, 1, Len(ds) - 1)) + ds[Len(ds)]

\* ds is the decimal numeral of e written with three digits, zero-padded
IsThreeDigitsOf(ds, e) ==
    /\ Len(ds) >= 3
    /\ \A k \in 1..Len(ds) : ds[k] \in 0..9
    /\ DecimalValue(ds) = e
    /\ Len(ds) > 3 => ds[1] # 0

ExpectedPeriod == IF trainer = "pix2pixHD" THEN 10 ELSE 5

\* the epochs 0..n-1 that get a periodic checkpoint, in increasing order
ExpectedEpochs(n) ==
    LET cnt == IF n = 0 THEN 0 ELSE ((n - 1) \div ExpectedPeriod) + 1
    IN  [k \in 1..cnt |-> (k - 1) * ExpectedPeriod]

\* fs are the periodic checkpoints of the epochs 0..n-1, in the order written
AreCheckpointsOf(fs, n) ==
    /\ Len(fs) = Len(ExpectedEpochs(n))
    /\ \A k \in 1..Len(fs) :
          /\ fs[k].stem = "param_"
          /\ fs[k].ext = ".h5"
          /\ IsThreeDigitsOf(fs[k].number, ExpectedEpochs(n)[k])

Periodic(fs) == SelectSeq(fs, LAMBDA f : f.stem = "param_")

Finals(fs) == SelectSeq(fs, LAMBDA f : f.stem = "param_final")

C4_Files ==
    \A w \in Workers :
        /\ rank(w) > 0 => files[w] = << >>
        /\ rank(w) = 0 => AreCheckpointsOf(Periodic(files[w]), epoch[w])

C4_WriteStep ==
    \A w \in Workers :
        Periodic(files'[w]) # Periodic(files[w]) =>
            /\ pc[w] = "checkpoint"
            /\ i[w] = IterationsPerEpoch(w)
            /\ epoch_reports[w] = epoch[w] + 1
            /\ d_updates[w] = (epoch[w] + 1) * IterationsPerEpoch(w)
            /\ g_updates[w] = (epoch[w] + 1) * IterationsPerEpoch(w)

\* C4: periodic checkpoints are written only by the worker of rank 0 and
\* only at the end of an epoch, after that epoch's updates and its epoch
\* report: param_<epoch, zero-padded to three digits>.h5 for exactly the
\* epochs e < max_epoch with e % 10 = 0 (pix2pixHD) or e % 5 = 0
\* (stylegan2-distillation); a worker of rank > 0 writes no file.
C4_PeriodicCheckpoints == []C4_Files /\ [][C4_WriteStep]_vars

\* rank 0 has written the checkpoints of two epochs, the later one after
\* updates
C4_Witness ==
    \E w \in Workers :
        /\ rank(w) = 0
        /\ Len(Periodic(files[w])) >= 2
        /\ files[w][Len(files[w])].number = <<0, 1, 0>>
        /\ g_updates[w] > 0
        /\ n_procs > 1

C5_FinalState ==
    \A w \in Workers :
        /\ pc[w] # "done" => Finals(files[w]) = << >>
        /\ pc[w] = "done" =>
              /\ rank(w) = 0 =>
                    /\ Len(Finals(files[w])) = 1
                    /\ files[w][Len(files[w])] = param_final
                    /\ AreCheckpointsOf(Periodic(files[w]), max_epoch)
              /\ rank(w) > 0 => files[w] = << >>
              /\ d_updates[w] = max_epoch * IterationsPerEpoch(w)
              /\ g_updates[w] = max_epoch * IterationsPerEpoch(w)
              /\ max_epoch = 0 => d_updates[w] = 0 /\ g_updates[w] = 0

C5_AfterFinal ==
    \A w \in Workers :
        Finals(files[w]) # << >> =>
            /\ d_updates'[w] = d_updates[w]
            /\ g_updates'[w] = g_updates[w]
            /\ files'[w] = files[w]

\* C5: a run that reaches the end of the epoch loop writes param_final.h5
\* exactly once on rank 0, after the last solver update and the last
\* periodic checkpoint, and no update or write follows it; with
\* max_epoch = 0 no update happens and param_final.h5 is still written.
C5_FinalCheckpoint == []C5_FinalState /\ [][C5_AfterFinal]_vars

\* rank 0 has finished a run with updates and periodic checkpoints
C5_Witness ==
    \E w \in Workers :
        /\ pc[w] = "done"
        /\ rank(w) = 0
        /\ Len(files[w]) >= 3
        /\ g_updates[w] > 0

C6_LrState ==
    \A w \in Workers :
        /\ pc[w] \in InEpoch =>
              /\ g_solver_lr[w] = lr[w]
              /\ d_solver_lr[w] = lr[w]
              /\ lr[w] = lr_schduler(epoch[w])
              /\ lr_evals[w] = epoch[w] + 1
        /\ pc[w] \in {"epoch_head", "fix_global", "set_lr"} =>
              /\ lr_evals[w] = epoch[w]
              /\ d_updates[w] = epoch[w] * IterationsPerEpoch(w)
        /\ pc[w] \in {"d_update", "g_update"} => g_solver_lr[w] = d_solver_lr[w]

C6_LrStep ==
    \A w \in Workers :
        (g_solver_lr'[w] # g_solver_lr[w] \/ d_solver_lr'[w] # d_solver_lr[w]
           \/ lr_evals'[w] # lr_evals[w]) => pc[w] = "set_lr"

\* C6: the learning rate is scheduled per epoch. At the start of every
\* epoch, before any update of that epoch, the scheduler is evaluated once on
\* the epoch index and its value is set on both solvers, so that at every
\* update both solvers have the same learning rate, and it does not change
\* between two iterations of an epoch.
C6_LearningRate == []C6_LrState /\ [][C6_LrStep]_vars

\* an update in the decay phase, a second iteration of the epoch
C6_Witness ==
    \E w \in Workers :
        /\ pc[w] = "g_update"
        /\ i[w] >= 1
        /\ g_solver_lr[w] = d_solver_lr[w]
        /\ g_solver_lr[w] < BaseLr
        /\ g_solver_lr[w] > 0

\* the second-to-last "/"-separated component of k is not
\* instance_normalization
NotInstanceNorm(k) ==
    LET c == split(k)
    IN  Len(c) < 2 \/ c[Len(c) - 1] # <<"instance_normalization">>

LocalNames == {k \in parameters : startswith(k, <<"generator", "/", "local">>)}

GeneratorNames == {k \in parameters : startswith(k, <<"generator">>)}

\* positions of the epoch loop's body after the test of line 116
AfterFixGlobal == InEpoch \cup {"set_lr"}

\* the epoch at which the switch is made
SwitchEpoch == IF fix_global_epoch_arg < 0 THEN 0 ELSE fix_global_epoch_arg

C7_PhaseState ==
    \A w \in Workers :
        /\ pc[w] \in AfterFixGlobal =>
              IF epoch[w] < SwitchEpoch
              THEN g_solver_params[w] = {k \in LocalNames : NotInstanceNorm(k)}
              ELSE g_solver_params[w] = {k \in GeneratorNames : NotInstanceNorm(k)}
        /\ g_updated[w] \subseteq {k \in GeneratorNames : NotInstanceNorm(k)}
        /\ ~(g_updated[w] \subseteq LocalNames) => epoch[w] >= SwitchEpoch
        /\ SwitchEpoch >= max_epoch => g_updated[w] \subseteq LocalNames

C7_PhaseStep ==
    \A w \in Workers :
        g_solver_params'[w] # g_solver_params[w] =>
            /\ g_solver_params[w] \subseteq g_solver_params'[w]
            /\ pc[w] \in {"setup_solvers", "fix_global"}
            /\ pc[w] = "fix_global" =>
                  /\ epoch[w] = SwitchEpoch
                  /\ d_updates[w] = epoch[w] * IterationsPerEpoch(w)

C8_Expected ==
    <<"fake.forward", "d_solver.zero_grad", "d_loss.backward",
      "d_solver.update", "unlinked_fake.grad.zero", "g_solver.zero_grad",
      "g_loss.backward", "fake.backward", "g_solver.update">>

C8_Ops == {C8_Expected[k] : k \in 1..Len(C8_Expected)}

\* C8: within an iteration gradients are cleared before they are
\* accumulated and used: fake.forward once, first; d_solver.zero_grad, then
\* d_loss.backward, then d_solver.update; then unlinked_fake.grad is zeroed
\* and g_solver.zero_grad called before g_loss.backward; fake.backward after
\* g_loss.backward and before g_solver.update. What fake.backward propagates
\* into the generator, and what g_solver.update reads, comes from g_loss of
\* that iteration alone.
C8_GradientHygiene ==
    \A w \in Workers :
        LET g_now == {<<"g_loss", epoch[w], i[w]>>}
            d_now == {<<"d_loss", epoch[w], i[w]>>}
        IN  /\ IsPrefix(Restrict(trace[w], C8_Ops), C8_Expected)
            /\ pc[w] = "report" => Restrict(trace[w], C8_Ops) = C8_Expected
            /\ pc[w] \in {"fake_backward", "g_all_reduce", "g_wait", "g_update"} =>
                  fake_grad[w] = g_now
            /\ pc[w] \in {"g_all_reduce", "g_wait", "g_update"} =>
                  \A k \in g_solver_params[w] : grad[w][k] = g_now
            /\ pc[w] \in {"d_all_reduce", "d_wait", "d_update"} =>
                  \A k \in d_solver_params[w] : grad[w][k] = d_now
            /\ pc[w] = "report" => g_used[w] = g_now /\ d_used[w] = d_now

\* a later iteration has updated the generator from its own g_loss alone,
\* after d_loss.backward had written into unlinked_fake.grad
C8_Witness ==
    \E w \in Workers :
        /\ pc[w] = "report"
        /\ epoch[w] >= 1
        /\ i[w] >= 1
        /\ g_used[w] = {<<"g_loss", epoch[w], i[w]>>}
        /\ g_solver_params[w] # {}

\* C9 as claimed: a call returns, for every registry, exactly the names
\* that start with the prefix and, with ignore_in, whose second-to-last
\* component is not instance_normalization; a name without "/" included.
C9_Original ==
    gp_result.called =>
        /\ ~gp_result.raised
        /\ gp_result.value =
              {k \in parameters :
                  /\ startswith(k, gp_str)
                  /\ gp_ignore_in => NotInstanceNorm(k)}

\* the data iterators of all workers report the same size
SameSize == \A u, v \in Workers : data_size[u] = data_size[v]

AllDone == \A w \in Workers : pc[w] = "done"

C10_Matched ==
    \A u, v \in Workers :
        /\ ar_calls[u] - ar_calls[v] <= 1
        /\ ar_calls[u] = ar_calls[v] => ar_args[u] = ar_args[v]
        /\ pc[u] = "done" => ar_calls[u] = 2 * max_epoch * IterationsPerEpoch(u)
        /\ pc[u] \in {"d_wait", "g_wait"} /\ ar_calls[v] = ar_calls[u] => pc[v] # "done"

C10_WriteStep ==
    \A w \in Workers : files'[w] # files[w] => ar_calls' = ar_calls /\ pc'[w] \notin {"d_wait", "g_wait"}

\* C10: when the n_procs > 1 workers run with the same max_epoch and data
\* iterators of the same size, all of them issue the same sequence of
\* all_reduce calls, every call is matched by all workers, no worker waits
\* forever in a call and train() ends on every worker; the checkpoint
\* writes of rank 0 make no collective call.
C10_CollectivesMatch ==
    /\ [](SameSize => C10_Matched)
    /\ [][C10_WriteStep]_vars
    /\ (SameSize ~> AllDone)

\* all the workers of a multi-process run have finished after collectives
C10_Witness ==
    /\ n_procs > 1
    /\ Cardinality(Workers) = n_procs
    /\ SameSize
    /\ AllDone
    /\ \A w \in Workers : ar_calls[w] >= 2

=============================================================================
